---- MODULE Spec2Model ----
(***************************************************************************)
(* A model of the latam-tech-monitor pipeline: the collector               *)
(* (src/collect.py), the photo digest publisher                            *)
(* (src/send_digest_photo.py), the text digest publisher                   *)
(* (src/send_telegram_digest.py) and the single-post runner (src/run.py),  *)
(* together with the files under data/ they read and write.                *)
(*                                                                         *)
(* Every action is one complete run of one script.  Times are hours.       *)
(* Strings that the code strips are records [pad, body]; an id is the      *)
(* triple the code hashes (sha256 is taken to be collision free).          *)
(***************************************************************************)
EXTENDS Integers, Sequences, FiniteSets, TLC

VARIABLES
    digestFile,     \* data/latam_digest.json
    fundingFile,    \* data/latam_funding.json
    startupsFile,   \* data/latam_startups.json
    stateFile,      \* data/state.json
    sentFile,       \* data/sent_state.json
    now,            \* the wall clock, in hours
    last,           \* history: what the last run did
    probe           \* one call of a pure function: its input, then its result

vars == <<digestFile, fundingFile, startupsFile, stateFile, sentFile, now, last, probe>>

----------------------------------------------------------------------------
(* Bounds of the model *)

\* the most entries all feeds together list in one collect run
MaxEntries == 2
\* the clock stops here
MaxClock == 48
\* the hours between two observations of the clock
TickHours == 24
\* list(new_seen_ids)[-20000:], the cap scaled so that truncation is reached
SeenCap == 2
\* list(sent_ids)[-50000:], the cap scaled so that truncation is reached
SentCap == 2

(* Program constants *)

WINDOW_HOURS == 24
MAX_AGE_HOURS == 24
TOP_FUNDING == 3
TOP_STARTUPS == 3
DIGEST_TOP_FUNDING == 3
DIGEST_TOP_STARTUPS == 3
ENTRY_LIMIT == 60
\* the clock of the first run: one window after hour 0
StartClock == WINDOW_HOURS
\* published_at is None
None == -1
\* a published_at that does not parse: datetime.fromisoformat raises on it
BadDate == -2

----------------------------------------------------------------------------
(* Sequence helpers *)

Range(s) == {s[i] : i \in DOMAIN s}

Min(a, b) == IF a < b THEN a ELSE b

\* s[:n]
Take(s, n) == SubSeq(s, 1, Min(n, Len(s)))

SeqsUpTo(S, n) == UNION {[1..k -> S] : k \in 0..n}

----------------------------------------------------------------------------
(* Feeds: the configuration and what the sources may serve *)

\* feeds/feeds_latam.json, "sources"
Sources == << [source |-> "A", type |-> "rss"], [source |-> "B", type |-> "rss"] >>

Str(pad, body) == [pad |-> pad, body |-> body]

\* str.strip()
Strip(s) == s.body

\* the entries a source's feed may list: both sources carry the same article (u1);
\* one entry has no date, one has an empty title
Serves(source) ==
    IF source = "A"
    THEN { [title |-> Str(FALSE, "startup raised"), link |-> Str(FALSE, "u1"), published |-> 12],
           [title |-> Str(FALSE, "ronda seed"),     link |-> Str(FALSE, "u2"), published |-> None] }
    ELSE { [title |-> Str(FALSE, "startup raised"), link |-> Str(FALSE, "u1"), published |-> 12],
           [title |-> Str(FALSE, ""),               link |-> Str(FALSE, "u2"), published |-> 24] }

\* what fetch_feed gives for one source: it raises, or a list of entries
FetchFail == [ok |-> FALSE, entries |-> <<>>]

FetchOk(es) == [ok |-> TRUE, entries |-> es]

RECURSIVE TotalEntries(_, _)
TotalEntries(f, n) == IF n = 0 THEN 0 ELSE Len(f[n].entries) + TotalEntries(f, n - 1)

\* what one source may give
FetchResults(k) ==
    {FetchFail} \cup {FetchOk(es) : es \in SeqsUpTo(Serves(Sources[k].source), MaxEntries)}

\* one fetch result per configured source
FeedResults ==
    { f \in [DOMAIN Sources -> UNION {FetchResults(k) : k \in DOMAIN Sources}] :
        /\ \A k \in DOMAIN Sources : f[k] \in FetchResults(k)
        /\ TotalEntries(f, Len(Sources)) <= MaxEntries }

----------------------------------------------------------------------------
(* src/collect.py *)

\* the words of a text, as the regular expressions' \b...\b see them
Tokens(body) ==
    CASE body = "startup raised" -> {"startup", "raised"}
      [] body = "ronda seed"     -> {"ronda", "seed"}
      [] body = "fintech bank"   -> {"fintech", "bank"}
      [] body = "solar farm"     -> {"solar", "farm"}
      [] OTHER                   -> {}

\* the alternatives of FUNDING_RE and of STARTUP_RE that the catalog's words can meet
FundingWords == {"funding", "raised", "raise", "round", "seed", "ronda", "capital", "venture"}

StartupWords == {"startup", "accelerator", "incubator", "unicorn", "founded", "launch", "product"}

norm_url(url) == Strip(url)

make_id(url, title, source) == <<source, norm_url(url), Strip(title)>>

detect_types(text) ==
    (IF Tokens(text) \cap FundingWords # {} THEN <<"funding">> ELSE <<>>)
    \o (IF Tokens(text) \cap StartupWords # {} THEN <<"startup_news">> ELSE <<>>)

\* sort_key of sort_items_newest_first; "0000-00-00T00:00:00+00:00" is hour 0
sort_key(x) == IF x.published_at = None THEN <<1, 0>> ELSE <<0, x.published_at>>

KeyLess(a, b) == a[1] < b[1] \/ (a[1] = b[1] /\ a[2] < b[2])

\* a keyed item put into a list sorted by descending key, behind the items it does not
\* exceed: sorted(..., reverse=True) is stable
RECURSIVE InsertDesc(_, _)
InsertDesc(x, s) ==
    IF s = <<>> THEN <<x>>
    ELSE IF KeyLess(Head(s).k, x.k) THEN <<x>> \o s
    ELSE <<Head(s)>> \o InsertDesc(x, Tail(s))

RECURSIVE SortDesc(_)
SortDesc(s) ==
    IF s = <<>> THEN <<>>
    ELSE InsertDesc(s[Len(s)], SortDesc(SubSeq(s, 1, Len(s) - 1)))

Values(s) == [i \in DOMAIN s |-> s[i].v]

sort_items_newest_first(items) ==
    Values(SortDesc([i \in DOMAIN items |-> [k |-> sort_key(items[i]), v |-> items[i]]]))

\* the Item built from one entry (lines 184-216); the modelled feeds carry no summary and no tags
MakeItem(entry, source_name) ==
    [ id           |-> make_id(entry.link, entry.title, source_name),
      source       |-> source_name,
      title        |-> Strip(entry.title),
      url          |-> norm_url(entry.link),
      published_at |-> entry.published,
      detected     |-> detect_types(Strip(entry.title)) ]

\* the loop body without the check against the seen state
RECURSIVE CollectEntries_NoDedup(_, _, _, _)
CollectEntries_NoDedup(entries, source_name, seen_ids, seen_urls) ==
    IF entries = <<>> THEN <<>>
    ELSE LET e == Head(entries)
             rest == CollectEntries_NoDedup(Tail(entries), source_name, seen_ids, seen_urls)
         IN  IF Strip(e.title) = "" \/ norm_url(e.link) = "" THEN rest
             ELSE <<MakeItem(e, source_name)>> \o rest

\* the entries of one feed that pass lines 186-191, as Items, in feed order
RECURSIVE CollectEntries(_, _, _, _)
CollectEntries(entries, source_name, seen_ids, seen_urls) ==
    IF entries = <<>> THEN <<>>
    ELSE LET e == Head(entries)
             rest == CollectEntries(Tail(entries), source_name, seen_ids, seen_urls)
         IN  IF Strip(e.title) = "" \/ norm_url(e.link) = "" THEN rest
             ELSE IF make_id(e.link, e.title, source_name) \in seen_ids
                     \/ norm_url(e.link) \in seen_urls THEN rest
             ELSE <<MakeItem(e, source_name)>> \o rest

\* the loop over the sources, ending at the first fetch that fails
RECURSIVE CollectSources_StopsAtFailure(_, _, _, _)
CollectSources_StopsAtFailure(k, feeds, seen_ids, seen_urls) ==
    IF k > Len(Sources) THEN <<>>
    ELSE IF ~feeds[k].ok THEN <<>>
    ELSE (IF Sources[k].type # "rss" THEN <<>>
          ELSE CollectEntries(Take(feeds[k].entries, ENTRY_LIMIT), Sources[k].source,
                              seen_ids, seen_urls))
         \o CollectSources_StopsAtFailure(k + 1, feeds, seen_ids, seen_urls)

\* the loop over the sources (lines 166-221): all_items before sorting
RECURSIVE CollectSources(_, _, _, _)
CollectSources(k, feeds, seen_ids, seen_urls) ==
    IF k > Len(Sources) THEN <<>>
    ELSE (IF Sources[k].type # "rss" \/ ~feeds[k].ok THEN <<>>
          ELSE CollectEntries(Take(feeds[k].entries, ENTRY_LIMIT), Sources[k].source,
                              seen_ids, seen_urls))
         \o CollectSources(k + 1, feeds, seen_ids, seen_urls)

Ids(items) == {items[i].id : i \in DOMAIN items}

Urls(items) == {items[i].url : i \in DOMAIN items}

RECURSIVE WithType(_, _)
WithType(items, t) ==
    IF items = <<>> THEN <<>>
    ELSE IF t \in Range(Head(items).detected) THEN <<Head(items)>> \o WithType(Tail(items), t)
    ELSE WithType(Tail(items), t)

\* list(a_set)[-cap:]: a set's iteration order is arbitrary, so any cap of its members
Truncations(S, cap) ==
    IF Cardinality(S) <= cap THEN {S} ELSE {T \in SUBSET S : Cardinality(T) = cap}

----------------------------------------------------------------------------
(* src/send_digest_photo.py *)

\* datetime.fromisoformat(dt.replace("Z", "+00:00")) returns
Parses(dt) == dt # BadDate

\* in_window with a boundary that leaves the cutoff itself out
in_window_Exclusive(it, cutoff) ==
    IF it.published_at = None THEN TRUE
    ELSE IF ~Parses(it.published_at) THEN TRUE
    ELSE it.published_at > cutoff

in_window(it, cutoff) ==
    IF it.published_at = None THEN TRUE
    ELSE IF ~Parses(it.published_at) THEN TRUE
    ELSE it.published_at >= cutoff

RECURSIVE InWindow(_, _)
InWindow(items, cutoff) ==
    IF items = <<>> THEN <<>>
    ELSE IF in_window(Head(items), cutoff) THEN <<Head(items)>> \o InWindow(Tail(items), cutoff)
    ELSE InWindow(Tail(items), cutoff)

\* load_json of send_digest_photo: a missing file is []
load_json_list(file) == IF file.exists THEN file.items ELSE <<>>

\* key=lambda x: x.get("published_at") or "": the empty string is below every date
window_key(x) == IF x.published_at = None THEN <<0, 0>> ELSE <<1, x.published_at>>

\* one list of load_window_lists: filtered, then sorted newest first
load_window_list(file, clock) ==
    LET kept == InWindow(load_json_list(file), clock - WINDOW_HOURS)
    IN  Values(SortDesc([i \in DOMAIN kept |-> [k |-> window_key(kept[i]), v |-> kept[i]]]))

\* load_sent that forgets what the file holds
load_sent_Forgets(file) == {}

load_sent(file) == IF file.st = "ok" THEN file.sent_ids ELSE {}

\* an item whose id is missing or empty: it.get("id") is false
NoId == <<>>

\* it.get("id") and it["id"] not in sent
Fresh(it, sent) == it.id # NoId /\ it.id \notin sent

RECURSIVE NotSent(_, _)
NotSent(items, sent) ==
    IF items = <<>> THEN <<>>
    ELSE IF Fresh(Head(items), sent) THEN <<Head(items)>> \o NotSent(Tail(items), sent)
    ELSE NotSent(Tail(items), sent)

\* SECTOR_RULES of send_digest_photo, in order: the one-word ASCII alternatives of each
\* regular expression, which the words of a title are matched against
SECTOR_RE ==
    << [name |-> "edtech",    words |-> {"education", "learning", "lms", "course", "school",
                                         "university", "edtech"}],
       [name |-> "medtech",   words |-> {"health", "medical", "clinic", "hospital", "patient",
                                         "medtech", "biotech", "pharma", "diagnos"}],
       [name |-> "fintech",   words |-> {"fintech", "bank", "payment", "payments", "card",
                                         "lending", "loan", "credit", "wallet", "crypto",
                                         "insur", "bnpl"}],
       [name |-> "hrtech",    words |-> {"hrtech", "recruit", "talent", "hiring", "payroll",
                                         "benefit", "workforce"}],
       [name |-> "ai",        words |-> {"ai", "llm", "genai"}],
       [name |-> "cyber",     words |-> {"cyber", "security", "infosec", "fraud", "risk",
                                         "threat"}],
       [name |-> "retail",    words |-> {"ecommerce", "marketplace", "retail", "shop",
                                         "commerce", "d2c"}],
       [name |-> "logistics", words |-> {"logistics", "delivery", "shipping", "freight",
                                         "warehouse"}],
       [name |-> "proptech",  words |-> {"proptech", "mortgage", "rental", "construction"}],
       [name |-> "agritech",  words |-> {"agritech", "farm", "farming", "crop", "agro"}],
       [name |-> "climate",   words |-> {"climate", "energy", "solar", "carbon", "sustain",
                                         "green"}],
       [name |-> "mobility",  words |-> {"mobility", "ride", "fleet", "transport", "ev",
                                         "vehicle"}] >>

\* sector_of: the first rule that finds a word in the title; the modelled items have no
\* summary and no categories
sector_of(it) ==
    LET hits == {i \in DOMAIN SECTOR_RE : Tokens(it.title) \cap SECTOR_RE[i].words # {}}
    IN  IF hits = {} THEN "other"
        ELSE SECTOR_RE[CHOOSE i \in hits : \A j \in hits : i <= j].name

\* it["_sector"] = ...: the dict gets one more key, or a new value under it
WithSector(it, sector) ==
    [f \in DOMAIN it \cup {"_sector"} |-> IF f = "_sector" THEN sector ELSE it[f]]

\* the list a caller passed in, after the loop of lines 156-157 has gone over its fresh items
Marked(items, sent) ==
    [i \in DOMAIN items |->
        IF Fresh(items[i], sent) THEN WithSector(items[i], sector_of(items[i])) ELSE items[i]]

\* pick_items that returns only the ids it selected
pick_items_ForgetsLoaded(funding_items, startups_items, sent) ==
    LET funding_after == Marked(funding_items, sent)
        startups_after == Marked(startups_items, sent)
        top_funding == Take(NotSent(funding_after, sent), TOP_FUNDING)
        top_startups == Take(NotSent(startups_after, sent), TOP_STARTUPS)
    IN  [ top_funding    |-> top_funding,
          top_startups   |-> top_startups,
          sent           |-> Ids(top_funding) \cup Ids(top_startups),
          funding_items  |-> funding_after,
          startups_items |-> startups_after ]

\* pick_items with a budget of one item per category
pick_items_TopOne(funding_items, startups_items, sent) ==
    LET funding_after == Marked(funding_items, sent)
        startups_after == Marked(startups_items, sent)
        top_funding == Take(NotSent(funding_after, sent), 1)
        top_startups == Take(NotSent(startups_after, sent), 1)
    IN  [ top_funding    |-> top_funding,
          top_startups   |-> top_startups,
          sent           |-> sent \cup Ids(top_funding) \cup Ids(top_startups),
          funding_items  |-> funding_after,
          startups_items |-> startups_after ]

\* pick_items: what it returns, and what it leaves of the objects it was given.  The set
\* it returns is the caller's set, with the selected ids added to it; the lists are the
\* caller's lists, whose fresh items have got a "_sector"
pick_items(funding_items, startups_items, sent) ==
    LET funding_after == Marked(funding_items, sent)
        startups_after == Marked(startups_items, sent)
        top_funding == Take(NotSent(funding_after, sent), TOP_FUNDING)
        top_startups == Take(NotSent(startups_after, sent), TOP_STARTUPS)
    IN  [ top_funding    |-> top_funding,
          top_startups   |-> top_startups,
          sent           |-> sent \cup Ids(top_funding) \cup Ids(top_startups),
          funding_items  |-> funding_after,
          startups_items |-> startups_after ]

Responses == {"ok", "http_error", "raise"}

\* send_message_fallback without raise_for_status
send_message_fallback_NoRaise(resp) == IF resp = "raise" THEN "raised" ELSE "returned"

\* send_message_fallback: returns, or raises (requests.post raises, or raise_for_status does)
send_message_fallback(resp) == IF resp = "ok" THEN "returned" ELSE "raised"

\* send_photo: a status >= 400 falls back to sendMessage
send_photo(photoResp, fallbackResp) ==
    CASE photoResp = "raise"      -> "raised"
      [] photoResp = "http_error" -> send_message_fallback(fallbackResp)
      [] OTHER                    -> "returned"

----------------------------------------------------------------------------
(* src/send_telegram_digest.py *)

\* the freshness test that drops an item whose date does not parse
not_stale_DropsUnparsed(it, cutoff) ==
    IF it.published_at = None THEN TRUE
    ELSE IF ~Parses(it.published_at) THEN FALSE
    ELSE ~(it.published_at < cutoff)

\* lines 28-35 of load_items: whether the item gets past the freshness test
not_stale(it, cutoff) ==
    IF it.published_at = None THEN TRUE
    ELSE IF ~Parses(it.published_at) THEN TRUE
    ELSE ~(it.published_at < cutoff)

\* load_items of send_telegram_digest: detected and not older than the cutoff
RECURSIVE DigestFresh(_, _)
DigestFresh(items, cutoff) ==
    IF items = <<>> THEN <<>>
    ELSE LET it == Head(items)
             rest == DigestFresh(Tail(items), cutoff)
         IN  IF it.detected = <<>> THEN rest
             ELSE IF ~not_stale(it, cutoff) THEN rest
             ELSE <<it>> \o rest

load_items(file, clock) == DigestFresh(file.items, clock - MAX_AGE_HOURS)

\* the items build_message lists
build_message(items) ==
    [ funding  |-> Take(WithType(items, "funding"), DIGEST_TOP_FUNDING),
      startups |-> Take(WithType(items, "startup_news"), DIGEST_TOP_STARTUPS) ]

----------------------------------------------------------------------------
(* The files and the runs *)

NoFile == [exists |-> FALSE, items |-> <<>>]

DataFile(items) == [exists |-> TRUE, items |-> items]

NoState == [st |-> "absent", seen_ids |-> {}, seen_urls |-> {}, sent_ids |-> {}]

NoSent == [st |-> "absent", sent_ids |-> {}]

\* no pure function is being called
NoProbe == [fn |-> "none"]

IdSeq(items) == [i \in DOMAIN items |-> items[i].id]

\* the record of a run
Ran(op, exit) ==
    [ op |-> op, exit |-> exit,
      failed |-> {}, offered |-> {},
      skipped_id |-> {}, skipped_url |-> {}, emitted |-> {}, wrote |-> FALSE,
      top_funding |-> <<>>, top_startups |-> <<>>,
      published |-> FALSE, saved |-> FALSE, reposted |-> {} ]

Init ==
    /\ digestFile = NoFile
    /\ fundingFile = NoFile
    /\ startupsFile = NoFile
    /\ stateFile = NoState
    /\ sentFile = NoSent
    /\ now = StartClock
    /\ last = Ran("init", "ok")
    /\ probe = NoProbe

\* history: the ids of the valid entries that line 190 skips, either because the id
\* is seen (by_url false) or because only the link is (by_url true)
RECURSIVE Skipped(_, _, _, _, _)
Skipped(k, feeds, seen_ids, seen_urls, by_url) ==
    IF k > Len(Sources) THEN {}
    ELSE (IF Sources[k].type # "rss" \/ ~feeds[k].ok THEN {}
          ELSE { make_id(e.link, e.title, Sources[k].source) :
                   e \in { x \in Range(Take(feeds[k].entries, ENTRY_LIMIT)) :
                             /\ Strip(x.title) # "" /\ norm_url(x.link) # ""
                             /\ LET id == make_id(x.link, x.title, Sources[k].source)
                                IN  IF by_url THEN id \notin seen_ids /\ norm_url(x.link) \in seen_urls
                                    ELSE id \in seen_ids } })
         \cup Skipped(k + 1, feeds, seen_ids, seen_urls, by_url)

\* history: the sources whose fetch_feed raised (fetched_fail counts them)
Failed(feeds) == {Sources[k].source : k \in {j \in DOMAIN Sources : ~feeds[j].ok}}

\* history: the ids of the valid entries of the feeds that were fetched
Offered(feeds) ==
    UNION { { make_id(e.link, e.title, Sources[k].source) :
                e \in { x \in Range(Take(feeds[k].entries, ENTRY_LIMIT)) :
                          Strip(x.title) # "" /\ norm_url(x.link) # "" } } :
            k \in {j \in DOMAIN Sources : Sources[j].type = "rss" /\ feeds[j].ok} }

\* collect.main without the guard against an empty digest
NothingCollected_Never(digest) == FALSE

\* the guard of lines 232-238: an empty digest keeps the previous files
NothingCollected(digest) == Len(digest) = 0

\* collect.main, run as `op`
Collect(op, feeds) ==
    IF Len(Sources) = 0 \/ stateFile.st = "corrupt"
    THEN /\ last' = Ran(op, "error")
         /\ UNCHANGED <<digestFile, fundingFile, startupsFile, stateFile, sentFile, now>>
    ELSE LET seen_ids == stateFile.seen_ids
             seen_urls == stateFile.seen_urls
             all_items == sort_items_newest_first(CollectSources(1, feeds, seen_ids, seen_urls))
             new_seen_ids == seen_ids \cup Ids(all_items)
             new_seen_urls == seen_urls \cup Urls(all_items)
             ran == [Ran(op, "ok") EXCEPT !.skipped_id = Skipped(1, feeds, seen_ids, seen_urls, FALSE),
                                          !.skipped_url = Skipped(1, feeds, seen_ids, seen_urls, TRUE),
                                          !.emitted = Ids(all_items),
                                          !.failed = Failed(feeds),
                                          !.offered = Offered(feeds)]
         IN  IF NothingCollected(all_items)
             THEN /\ last' = ran
                  /\ UNCHANGED <<digestFile, fundingFile, startupsFile, stateFile, sentFile, now>>
             ELSE /\ digestFile' = DataFile(all_items)
                  /\ fundingFile' = DataFile(WithType(all_items, "funding"))
                  /\ startupsFile' = DataFile(WithType(all_items, "startup_news"))
                  /\ \E ids \in Truncations(new_seen_ids, SeenCap) :
                       \E urls \in Truncations(new_seen_urls, SeenCap) :
                          stateFile' = [ st |-> "ok", seen_ids |-> ids,
                                         seen_urls |-> urls, sent_ids |-> {} ]
                  /\ last' = [ran EXCEPT !.wrote = TRUE]
                  /\ UNCHANGED <<sentFile, now>>

CollectMain == \E feeds \in FeedResults : Collect("collect", feeds) /\ UNCHANGED probe

\* run.main: collect.main returns None, so the run ends at "No item to post."
RunMain == \E feeds \in FeedResults : Collect("run", feeds) /\ UNCHANGED probe

\* save_sent: write_text truncates the file and then writes it; a crash in between
\* leaves a file that does not parse
save_sent(sent_ids, torn) ==
    IF torn THEN sentFile' = [st |-> "corrupt", sent_ids |-> {}]
    ELSE \E ids \in Truncations(sent_ids, SentCap) :
            sentFile' = [st |-> "ok", sent_ids |-> ids]

\* a photo run that publishes whatever was picked
NothingPicked_Never(top_funding, top_startups) == FALSE

\* lines 255-257 of send_digest_photo.main: nothing picked, nothing posted
NothingPicked(top_funding, top_startups) == top_funding = <<>> /\ top_startups = <<>>

\* build_message returns None (lines 44-45), and main returns on it (lines 85-87)
NoMessage(msg) == msg.funding = <<>> /\ msg.startups = <<>>

\* Telegram's side of a photo run: whether the channel got the digest
Delivered(photoResp, fallbackResp) ==
    photoResp = "ok" \/ (photoResp = "http_error" /\ fallbackResp = "ok")

\* send_digest_photo.main
PhotoMain ==
    \E photoResp \in Responses, fallbackResp \in Responses, torn \in BOOLEAN :
       /\ UNCHANGED <<digestFile, fundingFile, startupsFile, stateFile, now, probe>>
       /\ IF ~fundingFile.exists /\ ~startupsFile.exists
          THEN /\ last' = Ran("photo", "error")
               /\ UNCHANGED sentFile
          ELSE LET funding_window == load_window_list(fundingFile, now)
                   startups_window == load_window_list(startupsFile, now)
                   picked == pick_items(funding_window, startups_window, load_sent(sentFile))
                   ran == [Ran("photo", "ok") EXCEPT !.top_funding = IdSeq(picked.top_funding),
                                                      !.top_startups = IdSeq(picked.top_startups)]
               IN  IF NothingPicked(picked.top_funding, picked.top_startups)
                   THEN /\ last' = ran
                        /\ UNCHANGED sentFile
                   ELSE IF send_photo(photoResp, fallbackResp) = "raised"
                   THEN /\ last' = [ran EXCEPT !.exit = "error",
                                               !.published = Delivered(photoResp, fallbackResp)]
                        /\ UNCHANGED sentFile
                   ELSE /\ save_sent(picked.sent, torn)
                        /\ last' = [ran EXCEPT !.published = Delivered(photoResp, fallbackResp),
                                               !.saved = ~torn,
                                               !.exit = IF torn THEN "crash" ELSE "ok"]

\* send_telegram_digest.main; `reposted` is history: the ids this run posts that the
\* run right before it, also of the text digest, had posted
TextMain ==
    \E resp \in {"ok", "raise"} :
       /\ UNCHANGED <<digestFile, fundingFile, startupsFile, stateFile, sentFile, now, probe>>
       /\ IF ~digestFile.exists
          THEN last' = Ran("text", "error")
          ELSE LET msg == build_message(load_items(digestFile, now))
                   ids == Ids(msg.funding) \cup Ids(msg.startups)
                   before == IF last.op = "text" /\ last.published
                             THEN Range(last.top_funding) \cup Range(last.top_startups)
                             ELSE {}
                   ran == [Ran("text", "ok") EXCEPT !.top_funding = IdSeq(msg.funding),
                                                     !.top_startups = IdSeq(msg.startups)]
               IN  IF NoMessage(msg)
                   THEN last' = ran
                   ELSE IF resp = "raise"
                   THEN last' = [ran EXCEPT !.exit = "error"]
                   ELSE last' = [ran EXCEPT !.published = TRUE, !.reposted = ids \cap before]

\* time passes between two runs
Tick ==
    /\ now + TickHours <= MaxClock
    /\ now' = now + TickHours
    /\ last' = Ran("tick", "ok")
    /\ UNCHANGED <<digestFile, fundingFile, startupsFile, stateFile, sentFile, probe>>

Next == CollectMain \/ RunMain \/ PhotoMain \/ TextMain \/ Tick

Spec == Init /\ [][Next]_vars

----------------------------------------------------------------------------
(* state.json as the file the collector and run.main share *)

\* the commit step of run.main (lines 71-77) for a posted item: load_state, the item's id
\* put under sent_ids, save_state; the other keys of the file are written back as read.
\* run.main as it stands returns at line 36 and so does not get here: the step is taken
\* on its own, for an item of the digest
RunCommit ==
    \E id \in Ids(digestFile.items) :
       /\ stateFile.st # "corrupt"
       /\ stateFile' = [stateFile EXCEPT !.st = "ok", !.sent_ids = @ \cup {id}]
       /\ last' = [Ran("run_commit", "ok") EXCEPT !.published = TRUE, !.saved = TRUE,
                                                   !.emitted = {id}]
       /\ UNCHANGED <<digestFile, fundingFile, startupsFile, sentFile, now, probe>>

NextShared == CollectMain \/ RunMain \/ RunCommit

SpecShared == Init /\ [][NextShared]_vars

----------------------------------------------------------------------------
(* The freshness tests of the two publishers, called on one item *)

\* the published_at values an item may carry
ProbeDates == {None, BadDate} \cup 0..MaxClock

\* the item under test: it has a type, so that only its date decides
ProbeItem(published_at) ==
    [ id |-> <<"A", "u1", "startup raised">>, source |-> "A", title |-> "startup raised",
      url |-> "u1", published_at |-> published_at, detected |-> <<"funding">> ]

Verdict(fresh) == IF fresh THEN "fresh" ELSE "stale"

InitFresh ==
    /\ digestFile = NoFile
    /\ fundingFile = NoFile
    /\ startupsFile = NoFile
    /\ stateFile = NoState
    /\ sentFile = NoSent
    /\ now \in {StartClock, MaxClock}
    /\ last = Ran("init", "ok")
    /\ \E d \in ProbeDates :
          probe = [fn |-> "fresh", published_at |-> d, photo |-> "unset", text |-> "unset"]

\* send_digest_photo.in_window(it, cutoff), with the cutoff of load_window_lists
FreshPhoto ==
    /\ probe.fn = "fresh" /\ probe.photo = "unset"
    /\ probe' = [probe EXCEPT !.photo =
                   Verdict(in_window(ProbeItem(probe.published_at), now - WINDOW_HOURS))]
    /\ UNCHANGED <<digestFile, fundingFile, startupsFile, stateFile, sentFile, now, last>>

\* send_telegram_digest.load_items over a dataset that holds the item
FreshText ==
    /\ probe.fn = "fresh" /\ probe.text = "unset"
    /\ probe' = [probe EXCEPT !.text =
                   Verdict(load_items(DataFile(<<ProbeItem(probe.published_at)>>), now) # <<>>)]
    /\ UNCHANGED <<digestFile, fundingFile, startupsFile, stateFile, sentFile, now, last>>

NextFresh == FreshPhoto \/ FreshText

SpecFresh == InitFresh /\ [][NextFresh]_vars

----------------------------------------------------------------------------
(* src/tagger.py.  A text is the sequence of its characters; a character outside ASCII
   is written as its code point. *)

UpperCase ==
    << "A", "B", "C", "D", "E", "F", "G", "H", "I", "J", "K", "L", "M", "N", "O", "P", "Q", "R",
       "S", "T", "U", "V", "W", "X", "Y", "Z" >>

LowerCase ==
    << "a", "b", "c", "d", "e", "f", "g", "h", "i", "j", "k", "l", "m", "n", "o", "p", "q", "r",
       "s", "t", "u", "v", "w", "x", "y", "z" >>

\* the letters outside ASCII that the keyword tables hold
OtherLetters == {"U+7164", "U+8305", "U+832B", "U+8C29", "U+8D38", "U+94C6"}

\* str.isalpha, one character
IsAlpha(c) == c \in Range(UpperCase) \cup Range(LowerCase) \cup OtherLetters

LowerChar(c) ==
    IF c \in Range(UpperCase) THEN LowerCase[CHOOSE i \in DOMAIN UpperCase : UpperCase[i] = c]
    ELSE c

UpperChar(c) ==
    IF c \in Range(LowerCase) THEN UpperCase[CHOOSE i \in DOMAIN LowerCase : LowerCase[i] = c]
    ELSE c

\* str.lower()
Lower(s) == [i \in DOMAIN s |-> LowerChar(s[i])]

\* str.upper()
Upper(s) == [i \in DOMAIN s |-> UpperChar(s[i])]

\* k in t, for strings: k is a substring of t
Contains(k, t) == \E i \in 1..(Len(t) - Len(k) + 1) : SubSeq(t, i, i + Len(k) - 1) = k

\* any(k in t for k in keys)
AnyKey(keys, t) == \E i \in DOMAIN keys : Contains(keys[i], t)

COUNTRY_KEYWORDS ==
  <<
    [ label |-> <<"A", "R">>,
      keys |-> <<
              <<"a", "r", "g", "e", "n", "t", "i", "n", "a">>,
              <<"a", "r", "g", "e", "n", "t", "i", "n", "o">>,
              <<"b", "u", "e", "n", "o", "s", " ", "a", "i", "r", "e", "s">>,
              <<"m", "e", "n", "d", "o", "z", "a">>, <<"c", "o", "r", "d", "o", "b", "a">> >> ],
    [ label |-> <<"B", "R">>,
      keys |-> <<
              <<"b", "r", "a", "z", "i", "l">>, <<"b", "r", "a", "s", "i", "l">>,
              <<"s", "U+832B", "o", " ", "p", "a", "u", "l", "o">>,
              <<"r", "i", "o", " ", "d", "e", " ", "j", "a", "n", "e", "i", "r", "o">>,
              <<"b", "a", "h", "i", "a">> >> ],
    [ label |-> <<"M", "X">>,
      keys |-> <<
              <<"m", "e", "x", "i", "c", "o">>, <<"m", "U+8305", "x", "i", "c", "o">>,
              <<"c", "d", "m", "x">>, <<"g", "u", "a", "d", "a", "l", "a", "j", "a", "r", "a">>,
              <<"j", "a", "l", "i", "s", "c", "o">>,
              <<"m", "o", "n", "t", "e", "r", "r", "e", "y">> >> ],
    [ label |-> <<"C", "L">>,
      keys |-> <<
              <<"c", "h", "i", "l", "e">>, <<"s", "a", "n", "t", "i", "a", "g", "o">>,
              <<"v", "a", "l", "p", "a", "r", "a", "U+94C6", "s", "o">> >> ],
    [ label |-> <<"C", "O">>,
      keys |-> <<
              <<"c", "o", "l", "o", "m", "b", "i", "a">>, <<"b", "o", "g", "o", "t", "U+8C29">>,
              <<"m", "e", "d", "e", "l", "l", "U+94C6", "n">>, <<"c", "a", "l", "i">> >> ],
    [ label |-> <<"P", "E">>,
      keys |-> <<
              <<"p", "e", "r", "u">>, <<"l", "i", "m", "a">> >> ],
    [ label |-> <<"U", "Y">>,
      keys |-> <<
              <<"u", "r", "u", "g", "u", "a", "y">>,
              <<"m", "o", "n", "t", "e", "v", "i", "d", "e", "o">> >> ],
    [ label |-> <<"P", "Y">>,
      keys |-> <<
              <<"p", "a", "r", "a", "g", "u", "a", "y">>,
              <<"a", "s", "u", "n", "c", "i", "U+8D38", "n">> >> ],
    [ label |-> <<"E", "C">>,
      keys |-> <<
              <<"e", "c", "u", "a", "d", "o", "r">>, <<"q", "u", "i", "t", "o">>,
              <<"g", "u", "a", "y", "a", "q", "u", "i", "l">> >> ],
    [ label |-> <<"B", "O">>,
      keys |-> <<
              <<"b", "o", "l", "i", "v", "i", "a">>, <<"l", "a", " ", "p", "a", "z">>,
              <<"s", "a", "n", "t", "a", " ", "c", "r", "u", "z">> >> ],
    [ label |-> <<"P", "A">>,
      keys |-> <<
              <<"p", "a", "n", "a", "m", "a">>, <<"p", "a", "n", "a", "m", "U+8C29">> >> ],
    [ label |-> <<"C", "R">>,
      keys |-> <<
              <<"c", "o", "s", "t", "a", " ", "r", "i", "c", "a">>,
              <<"s", "a", "n", " ", "j", "o", "s", "U+8305">> >> ],
    [ label |-> <<"D", "O">>,
      keys |-> <<
              <<"d", "o", "m", "i", "n", "i", "c", "a", "n">>,
              <<"r", "e", "p", "U+7164", "b", "l", "i", "c", "a", " ", "d", "o", "m", "i", "n", "i", "c", "a", "n", "a">>,
              <<"s", "a", "n", "t", "o", " ", "d", "o", "m", "i", "n", "g", "o">> >> ],
    [ label |-> <<"S", "V">>,
      keys |-> <<
              <<"e", "l", " ", "s", "a", "l", "v", "a", "d", "o", "r">>,
              <<"s", "a", "n", " ", "s", "a", "l", "v", "a", "d", "o", "r">> >> ],
    [ label |-> <<"G", "T">>,
      keys |-> <<
              <<"g", "u", "a", "t", "e", "m", "a", "l", "a">>,
              <<"g", "u", "a", "t", "e", "m", "a", "l", "a", " ", "c", "i", "t", "y">> >> ]
  >>

SECTOR_RULES ==
  <<
    [ label |-> "FinTech",
      keys |-> <<
              <<"f", "i", "n", "t", "e", "c", "h">>, <<"p", "a", "y", "m", "e", "n", "t", "s">>,
              <<"p", "a", "y", "m", "e", "n", "t">>, <<"w", "a", "l", "l", "e", "t">>,
              <<"b", "a", "n", "k">>, <<"l", "e", "n", "d", "i", "n", "g">>,
              <<"c", "r", "e", "d", "i", "t">>, <<"c", "r", "y", "p", "t", "o">>,
              <<"u", "s", "d", "t">>, <<"r", "e", "m", "i", "t", "t", "a", "n", "c", "e">> >> ],
    [ label |-> "MedTech",
      keys |-> <<
              <<"m", "e", "d", "t", "e", "c", "h">>,
              <<"h", "e", "a", "l", "t", "h", "t", "e", "c", "h">>,
              <<"h", "e", "a", "l", "t", "h">>, <<"h", "o", "s", "p", "i", "t", "a", "l">>,
              <<"c", "l", "i", "n", "i", "c">>, <<"b", "i", "o", "t", "e", "c", "h">>,
              <<"p", "h", "a", "r", "m", "a">>,
              <<"d", "i", "a", "g", "n", "o", "s", "t", "i", "c">> >> ],
    [ label |-> "EdTech",
      keys |-> <<
              <<"e", "d", "t", "e", "c", "h">>, <<"e", "d", "u", "c", "a", "t", "i", "o", "n">>,
              <<"l", "e", "a", "r", "n", "i", "n", "g">>, <<"s", "c", "h", "o", "o", "l">>,
              <<"u", "n", "i", "v", "e", "r", "s", "i", "t", "y">>, <<"l", "m", "s">>,
              <<"c", "o", "u", "r", "s", "e">>, <<"s", "t", "u", "d", "e", "n", "t">> >> ],
    [ label |-> "AI",
      keys |-> <<
              <<"a", "i">>,
              <<"a", "r", "t", "i", "f", "i", "c", "i", "a", "l", " ", "i", "n", "t", "e", "l", "l", "i", "g", "e", "n", "c", "e">>,
              <<"m", "a", "c", "h", "i", "n", "e", " ", "l", "e", "a", "r", "n", "i", "n", "g">>,
              <<"l", "l", "m">>, <<"m", "o", "d", "e", "l">>, <<"g", "e", "n", "a", "i">> >> ],
    [ label |-> "SaaS",
      keys |-> <<
              <<"s", "a", "a", "s">>,
              <<"b", "2", "b", " ", "s", "o", "f", "t", "w", "a", "r", "e">>,
              <<"s", "u", "b", "s", "c", "r", "i", "p", "t", "i", "o", "n">>,
              <<"p", "l", "a", "t", "f", "o", "r", "m">>,
              <<"e", "n", "t", "e", "r", "p", "r", "i", "s", "e", " ", "s", "o", "f", "t", "w", "a", "r", "e">> >> ],
    [ label |-> "HRTech",
      keys |-> <<
              <<"h", "r", "t", "e", "c", "h">>, <<"h", "r">>, <<"h", "i", "r", "i", "n", "g">>,
              <<"r", "e", "c", "r", "u", "i", "t">>, <<"t", "a", "l", "e", "n", "t">>,
              <<"p", "a", "y", "r", "o", "l", "l">>, <<"b", "e", "n", "e", "f", "i", "t", "s">> >> ],
    [ label |-> "Climate",
      keys |-> <<
              <<"c", "l", "i", "m", "a", "t", "e">>, <<"c", "a", "r", "b", "o", "n">>,
              <<"s", "u", "s", "t", "a", "i", "n", "a", "b">>,
              <<"r", "e", "c", "y", "c", "l", "i", "n", "g">>,
              <<"c", "l", "e", "a", "n", " ", "e", "n", "e", "r", "g", "y">>,
              <<"s", "o", "l", "a", "r">>, <<"w", "i", "n", "d">> >> ],
    [ label |-> "Energy",
      keys |-> <<
              <<"e", "n", "e", "r", "g", "y">>, <<"o", "i", "l">>, <<"g", "a", "s">>,
              <<"g", "r", "i", "d">>, <<"r", "e", "n", "e", "w", "a", "b", "l", "e">> >> ],
    [ label |-> "AgriTech",
      keys |-> <<
              <<"a", "g", "r", "i", "t", "e", "c", "h">>, <<"a", "g", "r", "o">>,
              <<"f", "a", "r", "m">>, <<"c", "r", "o", "p", "s">>,
              <<"l", "i", "v", "e", "s", "t", "o", "c", "k">> >> ],
    [ label |-> "Mobility",
      keys |-> <<
              <<"m", "o", "b", "i", "l", "i", "t", "y">>, <<"r", "i", "d", "e">>,
              <<"t", "r", "a", "n", "s", "p", "o", "r", "t">>,
              <<"l", "o", "g", "i", "s", "t", "i", "c", "s">>,
              <<"d", "e", "l", "i", "v", "e", "r", "y">>, <<"f", "l", "e", "e", "t">> >> ],
    [ label |-> "E-commerce",
      keys |-> <<
              <<"e", "c", "o", "m", "m", "e", "r", "c", "e">>,
              <<"e", "-", "c", "o", "m", "m", "e", "r", "c", "e">>,
              <<"m", "a", "r", "k", "e", "t", "p", "l", "a", "c", "e">>,
              <<"r", "e", "t", "a", "i", "l">>, <<"s", "h", "o", "p">> >> ],
    [ label |-> "InsurTech",
      keys |-> <<
              <<"i", "n", "s", "u", "r", "t", "e", "c", "h">>,
              <<"i", "n", "s", "u", "r", "a", "n", "c", "e">> >> ],
    [ label |-> "PropTech",
      keys |-> <<
              <<"p", "r", "o", "p", "t", "e", "c", "h">>,
              <<"r", "e", "a", "l", " ", "e", "s", "t", "a", "t", "e">>,
              <<"h", "o", "u", "s", "i", "n", "g">> >> ],
    [ label |-> "Cybersecurity",
      keys |-> <<
              <<"c", "y", "b", "e", "r">>, <<"s", "e", "c", "u", "r", "i", "t", "y">>,
              <<"i", "n", "f", "o", "s", "e", "c">>, <<"f", "r", "a", "u", "d">> >> ],
    [ label |-> "Manufacturing",
      keys |-> <<
              <<"f", "a", "c", "t", "o", "r", "y">>,
              <<"m", "a", "n", "u", "f", "a", "c", "t", "u", "r", "i", "n", "g">>,
              <<"p", "l", "a", "n", "t">>, <<"p", "r", "o", "d", "u", "c", "t", "i", "o", "n">>,
              <<"i", "n", "d", "u", "s", "t", "r", "i", "a", "l">>,
              <<"n", "e", "w", " ", "f", "a", "c", "i", "l", "i", "t", "y">>,
              <<"g", "i", "g", "a", "f", "a", "c", "t", "o", "r", "y">> >> ]
  >>

EVENT_RULES ==
  <<
    [ label |-> "Funding",
      keys |-> <<
              <<"r", "a", "i", "s", "e", "d">>, <<"r", "a", "i", "s", "e", "s">>,
              <<"r", "o", "u", "n", "d">>, <<"s", "e", "r", "i", "e", "s", " ", "a">>,
              <<"s", "e", "r", "i", "e", "s", " ", "b">>, <<"s", "e", "e", "d">>,
              <<"p", "r", "e", "-", "s", "e", "e", "d">>,
              <<"i", "n", "v", "e", "s", "t", "m", "e", "n", "t">>,
              <<"f", "i", "n", "a", "n", "c", "i", "n", "g">>,
              <<"f", "u", "n", "d", "i", "n", "g">>, <<"r", "o", "n", "d", "a">>,
              <<"i", "n", "v", "e", "r", "s", "i", "U+8D38", "n">>,
              <<"l", "e", "v", "a", "n", "t", "U+8D38">>,
              <<"f", "i", "n", "a", "n", "c", "i", "a", "c", "i", "U+8D38", "n">> >> ],
    [ label |-> "M&A",
      keys |-> <<
              <<"a", "c", "q", "u", "i", "r", "e", "d">>,
              <<"a", "c", "q", "u", "i", "r", "e", "s">>,
              <<"a", "c", "q", "u", "i", "s", "i", "t", "i", "o", "n">>,
              <<"m", "e", "r", "g", "e", "r">>, <<"m", "&", "a">>,
              <<"c", "o", "m", "p", "r", "U+8D38">>,
              <<"a", "d", "q", "u", "i", "r", "i", "U+8D38">> >> ],
    [ label |-> "MarketEntry",
      keys |-> <<
              <<"l", "a", "u", "n", "c", "h", "e", "s", " ", "i", "n">>,
              <<"e", "n", "t", "e", "r", "s">>,
              <<"e", "x", "p", "a", "n", "d", "s", " ", "t", "o">>,
              <<"e", "x", "p", "a", "n", "s", "i", "o", "n">>,
              <<"n", "e", "w", " ", "m", "a", "r", "k", "e", "t">>,
              <<"a", "r", "r", "i", "v", "e", "s", " ", "t", "o">>,
              <<"l", "l", "e", "g", "a", " ", "a">>,
              <<"d", "e", "s", "e", "m", "b", "a", "r", "c", "a">>,
              <<"e", "x", "p", "a", "n", "d", "e">> >> ],
    [ label |-> "NewPlant",
      keys |-> <<
              <<"o", "p", "e", "n", "s">>, <<"o", "p", "e", "n", "i", "n", "g">>,
              <<"n", "e", "w", " ", "p", "l", "a", "n", "t">>,
              <<"n", "e", "w", " ", "f", "a", "c", "t", "o", "r", "y">>,
              <<"b", "u", "i", "l", "d", "s">>,
              <<"m", "a", "n", "u", "f", "a", "c", "t", "u", "r", "i", "n", "g">>,
              <<"p", "r", "o", "d", "u", "c", "t", "i", "o", "n", " ", "f", "a", "c", "i", "l", "i", "t", "y">>,
              <<"p", "l", "a", "n", "t", "a">>, <<"f", "U+8C29", "b", "r", "i", "c", "a">>,
              <<"p", "r", "o", "d", "u", "c", "c", "i", "U+8D38", "n">> >> ],
    [ label |-> "Partnership",
      keys |-> <<
              <<"p", "a", "r", "t", "n", "e", "r", "s">>,
              <<"p", "a", "r", "t", "n", "e", "r", "s", "h", "i", "p">>,
              <<"a", "g", "r", "e", "e", "m", "e", "n", "t">>,
              <<"a", "l", "l", "i", "a", "n", "c">>, <<"a", "c", "u", "e", "r", "d", "o">>,
              <<"a", "l", "i", "a", "n", "z", "a">> >> ]
  >>

\* the labels of the rules one of whose keys is in t, in the order of the rules
RECURSIVE Matching(_, _)
Matching(rules, t) ==
    IF rules = <<>> THEN <<>>
    ELSE (IF AnyKey(Head(rules).keys, t) THEN <<Head(rules).label>> ELSE <<>>)
         \o Matching(Tail(rules), t)

LATAM == <<"L", "A", "T", "A", "M">>

\* detect_country that takes any hint that is not empty
detect_country_AnyHint(text, hint) ==
    LET hits == Matching(COUNTRY_KEYWORDS, Lower(text))
        h == Upper(hint)
    IN  IF hits # <<>> THEN hits[1]
        ELSE IF h # <<>> THEN h
        ELSE LATAM

detect_country(text, hint) ==
    LET hits == Matching(COUNTRY_KEYWORDS, Lower(text))
        h == Upper(hint)
    IN  IF hits # <<>> THEN hits[1]
        ELSE IF Len(h) = 2 /\ (\A i \in DOMAIN h : IsAlpha(h[i])) THEN h
        ELSE LATAM

\* detect_sectors without the default label
detect_sectors_NoDefault(text) == Take(Matching(SECTOR_RULES, Lower(text)), 3)

detect_sectors(text) ==
    LET out == Matching(SECTOR_RULES, Lower(text))
    IN  IF out # <<>> THEN Take(out, 3) ELSE <<"Tech">>

\* detect_events without the cap
detect_events_Uncapped(text) ==
    LET out == Matching(EVENT_RULES, Lower(text))
    IN  IF out # <<>> THEN out ELSE <<"News">>

detect_events(text) ==
    LET out == Matching(EVENT_RULES, Lower(text))
    IN  IF out # <<>> THEN Take(out, 2) ELSE <<"News">>

----------------------------------------------------------------------------
(* The classifier, called on one text and one country hint *)

\* "Fintech startup X raises $10M Series A"
Text_FintechSeriesA ==
    << "F", "i", "n", "t", "e", "c", "h", " ", "s", "t", "a", "r", "t", "u", "p", " ", "X", " ",
       "r", "a", "i", "s", "e", "s", " ", "$", "1", "0", "M", " ", "S", "e", "r", "i", "e", "s",
       " ", "A" >>

\* "Weekly notes"
Text_WeeklyNotes ==
    << "W", "e", "e", "k", "l", "y", " ", "n", "o", "t", "e", "s" >>

\* "Startup raised capital through new round"
Text_RaisedThrough ==
    << "S", "t", "a", "r", "t", "u", "p", " ", "r", "a", "i", "s", "e", "d", " ", "c", "a", "p",
       "i", "t", "a", "l", " ", "t", "h", "r", "o", "u", "g", "h", " ", "n", "e", "w", " ", "r",
       "o", "u", "n", "d" >>

\* "AI bank opens health education platform in Chile and Argentina"
Text_ManySectors ==
    << "A", "I", " ", "b", "a", "n", "k", " ", "o", "p", "e", "n", "s", " ", "h", "e", "a", "l",
       "t", "h", " ", "e", "d", "u", "c", "a", "t", "i", "o", "n", " ", "p", "l", "a", "t", "f",
       "o", "r", "m", " ", "i", "n", " ", "C", "h", "i", "l", "e", " ", "a", "n", "d", " ", "A",
       "r", "g", "e", "n", "t", "i", "n", "a" >>

\* "Acme raised funding, acquires rival, expands to Peru, signs partnership"
Text_ManyEvents ==
    << "A", "c", "m", "e", " ", "r", "a", "i", "s", "e", "d", " ", "f", "u", "n", "d", "i", "n",
       "g", ",", " ", "a", "c", "q", "u", "i", "r", "e", "s", " ", "r", "i", "v", "a", "l", ",",
       " ", "e", "x", "p", "a", "n", "d", "s", " ", "t", "o", " ", "P", "e", "r", "u", ",", " ",
       "s", "i", "g", "n", "s", " ", "p", "a", "r", "t", "n", "e", "r", "s", "h", "i", "p" >>

\* "Fast scaling logistics"
Text_Scaling ==
    << "F", "a", "s", "t", " ", "s", "c", "a", "l", "i", "n", "g", " ", "l", "o", "g", "i", "s",
       "t", "i", "c", "s" >>

\* the empty text
Text_Empty == <<>>

\* "Lima hospital"
Text_LimaHospital ==
    << "L", "i", "m", "a", " ", "h", "o", "s", "p", "i", "t", "a", "l" >>

ProbeTexts ==
    { Text_FintechSeriesA,
      Text_WeeklyNotes,
      Text_RaisedThrough,
      Text_ManySectors,
      Text_ManyEvents,
      Text_Scaling,
      Text_Empty,
      Text_LimaHospital }

\* country_hint: "", "mx", "MX", "LATAM", "m1", "b", "bra"
ProbeHints ==
    { <<>>,
      <<"m", "x">>,
      <<"M", "X">>,
      <<"L", "A", "T", "A", "M">>,
      <<"m", "1">>,
      <<"b">>,
      <<"b", "r", "a">> }

InitTagger ==
    /\ digestFile = NoFile
    /\ fundingFile = NoFile
    /\ startupsFile = NoFile
    /\ stateFile = NoState
    /\ sentFile = NoSent
    /\ now = StartClock
    /\ last = Ran("init", "ok")
    /\ \E t \in ProbeTexts, h \in ProbeHints : probe = [fn |-> "text", text |-> t, hint |-> h]

Called(fn, out) == [fn |-> fn, text |-> probe.text, hint |-> probe.hint, out |-> out]

DetectSectors ==
    /\ probe.fn = "text"
    /\ probe' = Called("detect_sectors", detect_sectors(probe.text))
    /\ UNCHANGED <<digestFile, fundingFile, startupsFile, stateFile, sentFile, now, last>>

DetectEvents ==
    /\ probe.fn = "text"
    /\ probe' = Called("detect_events", detect_events(probe.text))
    /\ UNCHANGED <<digestFile, fundingFile, startupsFile, stateFile, sentFile, now, last>>

DetectCountry ==
    /\ probe.fn = "text"
    /\ probe' = Called("detect_country", detect_country(probe.text, probe.hint))
    /\ UNCHANGED <<digestFile, fundingFile, startupsFile, stateFile, sentFile, now, last>>

NextTagger == DetectSectors \/ DetectEvents \/ DetectCountry

SpecTagger == InitTagger /\ [][NextTagger]_vars

----------------------------------------------------------------------------
(* src/enrich_groq.py *)

\* a field of the reply's JSON object: missing, null, "" or [] (absent); a string or a
\* list (value); or a true value that is neither, such as a number or an object
Absent == [kind |-> "absent", v |-> <<>>]

Value(v) == [kind |-> "value", v |-> v]

WrongType == [kind |-> "wrongtype", v |-> <<>>]

\* a reply without a JSON object: _groq_chat raises (no key, or every model fails), the
\* content is not JSON, or the JSON is not an object
NoObject(reply) ==
    [ reply |-> reply, ru_summary |-> Absent, ru_insight |-> Absent,
      industry_tags |-> Absent, event_tags |-> Absent, country |-> Absent ]

\* the texts, tag lists and countries a reply may carry: "ok"; one label, four labels, and
\* the string "FinTech" in place of a list; one label and three; "mx" and " "
TextFields == {Absent, Value(<<"o", "k">>), WrongType}

SectorFields ==
    { Absent, Value(<<"FinTech">>), Value(<<"FinTech", "AI", "SaaS", "GovTech">>),
      Value(<<"F", "i", "n", "T", "e", "c", "h">>), WrongType }

EventFields == {Absent, Value(<<"Funding">>), Value(<<"Funding", "M&A", "News">>), WrongType}

CountryFields == {Absent, Value(<<"m", "x">>), Value(<<" ">>), WrongType}

GroqReplies ==
    {NoObject("raised"), NoObject("not_json"), NoObject("not_object")}
    \cup [ reply : {"object"}, ru_summary : TextFields, ru_insight : TextFields,
           industry_tags : SectorFields, event_tags : EventFields, country : CountryFields ]

RECURSIVE LStrip(_)
LStrip(s) == IF s # <<>> /\ Head(s) = " " THEN LStrip(Tail(s)) ELSE s

RECURSIVE RStrip(_)
RStrip(s) == IF s # <<>> /\ s[Len(s)] = " " THEN RStrip(SubSeq(s, 1, Len(s) - 1)) ELSE s

\* str.strip(), on a sequence of characters
StripText(s) == RStrip(LStrip(s))

\* x or y
Or(x, y) == IF x # <<>> THEN x ELSE y

\* the summary of the fallback when the item has no title
StockSummary ==
    << "U+041D", "U+043E", "U+0432", "U+043E", "U+0441", "U+0442", "U+044C", " ", "U+0438",
       "U+0437", " ", "L", "A", "T", "A", "M" >>

\* the insight of the fallback
StockInsight ==
    << "U+041A", "U+043E", "U+0440", "U+043E", "U+0442", "U+043A", "U+043E", ":", " ", "U+0441",
       "U+043E", "U+0431", "U+044B", "U+0442", "U+0438", "U+0435", " ", "U+043C", "U+043E",
       "U+0436", "U+0435", "U+0442", " ", "U+043F", "U+043E", "U+0432", "U+043B", "U+0438",
       "U+044F", "U+0442", "U+044C", " ", "U+043D", "U+0430", " ", "U+043A", "U+043E", "U+043D",
       "U+043A", "U+0443", "U+0440", "U+0435", "U+043D", "U+0446", "U+0438", "U+044E", ",", " ",
       "U+0438", "U+043D", "U+0432", "U+0435", "U+0441", "U+0442", "U+0438", "U+0446", "U+0438",
       "U+0438", " ", "U+0438", " ", "U+0441", "U+043A", "U+043E", "U+0440", "U+043E", "U+0441",
       "U+0442", "U+044C", " ", "U+043C", "U+0430", "U+0441", "U+0448", "U+0442", "U+0430",
       "U+0431", "U+0438", "U+0440", "U+043E", "U+0432", "U+0430", "U+043D", "U+0438", "U+044F",
       " ", "U+0432", " ", "U+0440", "U+0435", "U+0433", "U+0438", "U+043E", "U+043D", "U+0435",
       "." >>

\* the try block (lines 98-114) raises: no JSON object, or a field on which .strip(),
\* .upper() or the slice raises
GroqRaises(groq) ==
    \/ groq.reply # "object"
    \/ \E f \in {groq.ru_summary, groq.ru_insight, groq.industry_tags, groq.event_tags,
                 groq.country} : f.kind = "wrongtype"

\* the fields after the try / except (lines 97-126)
Tried(item, groq) ==
    LET blob == item.title \o <<" ">> \o item.summary
    IN  IF GroqRaises(groq)
        THEN [ ru_summary    |-> IF item.title # <<>> THEN StripText(item.title) ELSE StockSummary,
               ru_insight    |-> StockInsight,
               industry_tags |-> detect_sectors(blob),
               event_tags    |-> detect_events(blob),
               country       |-> detect_country(blob, item.country_hint) ]
        ELSE [ ru_summary    |-> StripText(Or(groq.ru_summary.v, item.title)),
               ru_insight    |-> StripText(groq.ru_insight.v),
               industry_tags |-> Take(groq.industry_tags.v, 3),
               event_tags    |-> Take(groq.event_tags.v, 2),
               country       |-> Upper(groq.country.v) ]

\* enrich_with_groq without the backstops of lines 128-135
enrich_with_groq_NoBackstop(item, groq) ==
    LET tried == Tried(item, groq)
    IN  [ exit          |-> "returned",
          ru_summary    |-> StripText(Or(tried.ru_summary, item.title)),
          ru_insight    |-> StripText(tried.ru_insight),
          industry_tags |-> tried.industry_tags,
          event_tags    |-> tried.event_tags,
          country       |-> tried.country ]

\* enrich_with_groq: no statement outside the try can raise, so the call returns
enrich_with_groq(item, groq) ==
    LET blob == item.title \o <<" ">> \o item.summary
        tried == Tried(item, groq)
        country == Or(tried.country, detect_country(blob, item.country_hint))
    IN  [ exit          |-> "returned",
          ru_summary    |-> StripText(Or(tried.ru_summary, item.title)),
          ru_insight    |-> StripText(tried.ru_insight),
          industry_tags |-> Or(tried.industry_tags, detect_sectors(blob)),
          event_tags    |-> Or(tried.event_tags, detect_events(blob)),
          country       |-> Upper(Or(country, LATAM)) ]

----------------------------------------------------------------------------
(* The enrichment, called on one item and one reply of the service *)

ProbeNews ==
    [ title : {Text_FintechSeriesA, Text_WeeklyNotes, Text_Empty},
      summary : {Text_Empty, Text_LimaHospital},
      country_hint : {<<"m", "x">>, LATAM} ]

InitEnrich ==
    /\ digestFile = NoFile
    /\ fundingFile = NoFile
    /\ startupsFile = NoFile
    /\ stateFile = NoState
    /\ sentFile = NoSent
    /\ now = StartClock
    /\ last = Ran("init", "ok")
    /\ \E item \in ProbeNews, groq \in GroqReplies :
          probe = [fn |-> "item", item |-> item, groq |-> groq]

Enrich ==
    /\ probe.fn = "item"
    /\ probe' = [ fn |-> "enrich_with_groq", item |-> probe.item, groq |-> probe.groq,
                  out |-> enrich_with_groq(probe.item, probe.groq) ]
    /\ UNCHANGED <<digestFile, fundingFile, startupsFile, stateFile, sentFile, now, last>>

NextEnrich == Enrich

SpecEnrich == InitEnrich /\ [][NextEnrich]_vars

----------------------------------------------------------------------------
(* The selection of the photo digest, called on two lists and a sent set *)

PickItem(id, title) ==
    [ id |-> id, source |-> "A", title |-> title, url |-> "u1", published_at |-> 12,
      detected |-> <<"funding", "startup_news">> ]

\* a ranked list of items; the second one has no id
PickCatalog ==
    << PickItem(<<"A", "u1", "startup raised">>, "startup raised"),
       PickItem(NoId, "ronda seed"),
       PickItem(<<"A", "u2", "ronda seed">>, "ronda seed"),
       PickItem(<<"A", "u3", "fintech bank">>, "fintech bank"),
       PickItem(<<"A", "u4", "solar farm">>, "solar farm") >>

\* the lists a caller may pass: the stretches of the catalog
PickLists ==
    {SubSeq(PickCatalog, a, b) : a \in 1..(Len(PickCatalog) + 1), b \in 0..Len(PickCatalog)}

PickSents == SUBSET (Ids(PickCatalog) \ {NoId})

InitPick ==
    /\ digestFile = NoFile
    /\ fundingFile = NoFile
    /\ startupsFile = NoFile
    /\ stateFile = NoState
    /\ sentFile = NoSent
    /\ now = StartClock
    /\ last = Ran("init", "ok")
    /\ \E f \in PickLists, st \in PickLists, sent \in PickSents :
          probe = [fn |-> "lists", funding_items |-> f, startups_items |-> st, sent |-> sent]

\* pick_items(funding_items, startups_items, sent); the probe keeps the arguments as
\* they were given
PickItems ==
    /\ probe.fn = "lists"
    /\ probe' = [ fn |-> "pick_items", funding_items |-> probe.funding_items,
                  startups_items |-> probe.startups_items, sent |-> probe.sent,
                  out |-> pick_items(probe.funding_items, probe.startups_items, probe.sent) ]
    /\ UNCHANGED <<digestFile, fundingFile, startupsFile, stateFile, sentFile, now, last>>

NextPick == PickItems

SpecPick == InitPick /\ [][NextPick]_vars

----------------------------------------------------------------------------
(* The identity of an entry, computed for two fetches of one source *)

\* the links and the titles a fetch may carry, with or without whitespace around them;
\* one link is u1 followed by a tracking parameter
FetchedLinks == {Str(pad, body) : pad \in BOOLEAN, body \in {"u1", "u1?utm_source=rss", "u2"}}

FetchedTitles == {Str(pad, body) : pad \in BOOLEAN, body \in {"startup raised", "ronda seed"}}

Fetched == [link : FetchedLinks, title : FetchedTitles]

InitIdentity ==
    /\ digestFile = NoFile
    /\ fundingFile = NoFile
    /\ startupsFile = NoFile
    /\ stateFile = NoState
    /\ sentFile = NoSent
    /\ now = StartClock
    /\ last = Ran("init", "ok")
    /\ \E k \in DOMAIN Sources, e1 \in Fetched, e2 \in Fetched :
          probe = [fn |-> "entries", source |-> Sources[k].source, first |-> e1, second |-> e2]

\* make_id(link, title, source_name) for each of the two entries
MakeIds ==
    /\ probe.fn = "entries"
    /\ probe' = [ fn |-> "make_id", source |-> probe.source,
                  first |-> probe.first, second |-> probe.second,
                  id1 |-> make_id(probe.first.link, probe.first.title, probe.source),
                  id2 |-> make_id(probe.second.link, probe.second.title, probe.source) ]
    /\ UNCHANGED <<digestFile, fundingFile, startupsFile, stateFile, sentFile, now, last>>

NextIdentity == MakeIds

SpecIdentity == InitIdentity /\ [][NextIdentity]_vars

----------------------------------------------------------------------------
(* The claims *)

CollectOps == {"collect", "run"}

Tops(run) == Range(run.top_funding) \cup Range(run.top_startups)

DatasetIds == Ids(fundingFile.items) \cup Ids(startupsFile.items)

\* what a photo run started in this state selects
PhotoSelection ==
    LET picked == pick_items(load_window_list(fundingFile, now),
                             load_window_list(startupsFile, now), load_sent(sentFile))
    IN  <<IdSeq(picked.top_funding), IdSeq(picked.top_startups)>>

\* C1: no id is in both top_funding and top_startups of a photo digest run.
C1_CrossCategoryExclusive ==
    last.op = "photo" => Range(last.top_funding) \cap Range(last.top_startups) = {}

\* C2: while sent_state.json is readable and holds fewer than the cap, an id it records
\* is not selected by a photo digest run, and stays recorded.
C2_SentNeverReselected ==
    [][ /\ (sentFile.st = "ok" /\ last'.op = "photo")
            => Tops(last') \cap sentFile.sent_ids = {}
        /\ (sentFile.st = "ok" /\ sentFile'.st = "ok"
            /\ Cardinality(sentFile'.sent_ids) < SentCap)
            => sentFile.sent_ids \subseteq sentFile'.sent_ids ]_vars

\* C2's case: a photo run that selects nothing because what the datasets hold is sent.
C2_Witness ==
    /\ last.op = "photo" /\ last.exit = "ok" /\ Tops(last) = {}
    /\ sentFile.st = "ok" /\ Cardinality(sentFile.sent_ids) < SentCap
    /\ DatasetIds # {} /\ DatasetIds \subseteq sentFile.sent_ids

\* C3: a photo run whose digest Telegram did not get leaves sent_state.json as it was and
\* does not save, and a run started next selects the same items; run.main does not save
\* a state without having published.
C3_FailedPublishNotCommitted ==
    /\ [](( last.op = "photo" /\ Tops(last) # {} /\ ~last.published)
            => (~last.saved /\ PhotoSelection = <<last.top_funding, last.top_startups>>))
    /\ [][ /\ (last'.op = "photo" /\ Tops(last') # {} /\ ~last'.published)
               => sentFile' = sentFile
           /\ (last'.op = "run" /\ ~last'.published)
               => (~last'.saved /\ stateFile'.sent_ids = stateFile.sent_ids) ]_vars

\* C3's case: a photo run with a selection and a recorded sent state whose publish failed.
C3_Witness ==
    /\ last.op = "photo" /\ last.exit = "error" /\ Tops(last) # {} /\ ~last.published
    /\ sentFile.st = "ok" /\ sentFile.sent_ids # {}

\* C4: a collect run that collects nothing new writes no file and ends normally.
C4_EmptyCollectWritesNothing ==
    [][ (last'.op \in CollectOps /\ last'.emitted = {})
            => /\ digestFile' = digestFile /\ fundingFile' = fundingFile
               /\ startupsFile' = startupsFile /\ stateFile' = stateFile
               /\ ~last'.wrote
               /\ (stateFile.st # "corrupt" => last'.exit = "ok") ]_vars

\* C4's case: a collect run over existing datasets in which every entry was already seen.
C4_Witness ==
    /\ last.op = "collect" /\ last.exit = "ok" /\ last.emitted = {}
    /\ last.skipped_id # {} /\ digestFile.exists /\ digestFile.items # <<>>

\* C5: no state file is ever left partially written, whatever run crashed.
C5_AtomicCommit ==
    sentFile.st # "corrupt" /\ stateFile.st # "corrupt"

\* C6: a photo run that finds sent_state.json unparsable stops with an error, having
\* selected and published nothing.
C6_CorruptStateIsFatal ==
    [][ (sentFile.st = "corrupt" /\ last'.op = "photo")
            => (last'.exit = "error" /\ Tops(last') = {} /\ ~last'.published) ]_vars

\* C7: after a commit, every id added in the run is in the persisted state.
C7_PruningKeepsRecent ==
    /\ (last.op \in CollectOps /\ last.wrote) => last.emitted \subseteq stateFile.seen_ids
    /\ (last.op = "photo" /\ last.saved) => Tops(last) \subseteq sentFile.sent_ids

\* C8: while state.json holds fewer than the cap, an id it records as seen is not
\* emitted by a collect run, and stays recorded.
C8_SeenNeverReemitted ==
    [][ /\ (last'.op \in CollectOps) => last'.emitted \cap stateFile.seen_ids = {}
        /\ (stateFile.st = "ok" /\ stateFile'.st = "ok"
            /\ Cardinality(stateFile'.seen_ids) < SeenCap)
            => stateFile.seen_ids \subseteq stateFile'.seen_ids ]_vars

\* C8's case: a committed collect run that emitted new items and skipped a seen one.
C8_Witness ==
    /\ last.op = "collect" /\ last.wrote /\ last.skipped_id # {}
    /\ last.skipped_id \subseteq stateFile.seen_ids

\* C9: the same article from two sources has two ids, and no entry with an unseen id is
\* skipped because of the other.
C9_EligiblePerId ==
    /\ make_id(Str(FALSE, "u1"), Str(FALSE, "startup raised"), "A")
         # make_id(Str(FALSE, "u1"), Str(FALSE, "startup raised"), "B")
    /\ last.op \in CollectOps => last.skipped_url = {}

\* C10: the text digest does not post an item that its previous run posted.
C10_TextDigestPostsOnce ==
    last.op = "text" => last.reposted = {}

\* every item with a known date precedes every item without one, and the known dates
\* do not increase
UnknownLast(items) ==
    \A i, j \in DOMAIN items :
       i < j => /\ items[i].published_at = None => items[j].published_at = None
                /\ (items[i].published_at # None /\ items[j].published_at # None)
                      => items[i].published_at >= items[j].published_at

\* C11: the datasets collect writes (the output of sort_items_newest_first), and the
\* lists load_window_lists returns, have the items with a known published_at first, in
\* non-increasing date order, and the items with an unknown published_at last.
C11_UnknownDatesLast ==
    /\ UnknownLast(digestFile.items)
    /\ UnknownLast(fundingFile.items)
    /\ UnknownLast(startupsFile.items)
    /\ UnknownLast(load_window_list(fundingFile, now))
    /\ UnknownLast(load_window_list(startupsFile, now))

\* C14: a collect run in which a source's fetch fails still ends normally, emits every
\* valid entry of the fetched sources that line 190 does not skip, writes what it emits
\* to the digest, and records it as seen while the seen state holds fewer than the cap.
C14_FetchFailureNotFatal ==
    (last.op \in CollectOps /\ last.failed # {}) =>
       /\ last.exit = "ok"
       /\ last.offered \ (last.skipped_id \cup last.skipped_url) \subseteq last.emitted
       /\ last.emitted # {} => (last.wrote /\ Ids(digestFile.items) = last.emitted)
       /\ (last.wrote /\ Cardinality(stateFile.seen_ids) < SeenCap)
            => last.emitted \subseteq stateFile.seen_ids

\* C14's case: the first source fails, and an entry of the second one is committed.
C14_Witness ==
    /\ last.op = "collect" /\ last.failed = {Sources[1].source} /\ last.wrote
    /\ \E id \in last.emitted : id[1] = Sources[2].source /\ id \in Ids(digestFile.items)

\* C15: a publisher run that finds its dataset and selects no item ends normally, posts
\* nothing and leaves every file as it was.
C15_TerminalNoOp ==
    [][ ( /\ \/ last'.op = "photo" /\ (fundingFile.exists \/ startupsFile.exists)
             \/ last'.op = "text" /\ digestFile.exists
          /\ Tops(last') = {} )
        => /\ last'.exit = "ok" /\ ~last'.published /\ ~last'.saved
           /\ UNCHANGED <<digestFile, fundingFile, startupsFile, stateFile, sentFile>> ]_vars

\* C15's case: a photo run over datasets whose items have all left the window.
C15_Witness ==
    /\ last.op = "photo" /\ last.exit = "ok" /\ Tops(last) = {}
    /\ fundingFile.items # <<>> /\ load_window_list(fundingFile, now) = <<>>
    /\ load_window_list(startupsFile, now) = <<>>

\* C12: an item published exactly one window before now is fresh for in_window and for
\* load_items, and an item published one unit of the clock earlier is stale for both.
C12_BoundaryInclusive ==
    probe.fn = "fresh" =>
       /\ (probe.published_at \notin {None, BadDate}
           /\ probe.published_at = now - WINDOW_HOURS)
            => (probe.photo \in {"unset", "fresh"} /\ probe.text \in {"unset", "fresh"})
       /\ (probe.published_at \notin {None, BadDate}
           /\ probe.published_at = now - MAX_AGE_HOURS - 1)
            => (probe.photo \in {"unset", "stale"} /\ probe.text \in {"unset", "stale"})

\* C12's case: both tests have judged an item published exactly at the cutoff.
C12_Witness ==
    /\ probe.fn = "fresh" /\ probe.published_at = now - WINDOW_HOURS
    /\ probe.photo = "fresh" /\ probe.text = "fresh"

\* C13: in_window and load_items give every item the same verdict, and an item whose
\* published_at is missing or does not parse is fresh for both.
C13_UnknownDateIsFresh ==
    probe.fn = "fresh" =>
       /\ (probe.photo # "unset" /\ probe.text # "unset") => probe.photo = probe.text
       /\ probe.published_at \in {None, BadDate}
            => (probe.photo \in {"unset", "fresh"} /\ probe.text \in {"unset", "fresh"})

\* C13's case: both tests have judged an item whose date does not parse.
C13_Witness ==
    /\ probe.fn = "fresh" /\ probe.published_at = BadDate
    /\ probe.photo # "unset" /\ probe.text # "unset"

\* title + " " + summary, the text the deterministic tagger is given
Blob(item) == item.title \o <<" ">> \o item.summary

\* the service supplied the field: the reply is a JSON object that holds a value for it
Supplied(groq, f) == groq.reply = "object" /\ f.kind = "value"

\* C16: whatever the service replies, enrich_with_groq returns, and the item it returns
\* has industry_tags, event_tags and a country that are not empty; each is the
\* deterministic tagger's when the service did not supply it.
C16_EnrichmentBestEffort ==
    probe.fn = "enrich_with_groq" =>
       LET item == probe.item
           groq == probe.groq
           out == probe.out
       IN  /\ out.exit = "returned"
           /\ out.industry_tags # <<>> /\ out.event_tags # <<>> /\ out.country # <<>>
           /\ ~Supplied(groq, groq.industry_tags)
                => out.industry_tags = detect_sectors(Blob(item))
           /\ ~Supplied(groq, groq.event_tags)
                => out.event_tags = detect_events(Blob(item))
           /\ ~Supplied(groq, groq.country)
                => out.country = detect_country(Blob(item), item.country_hint)

\* C16's case: the reply is a JSON object that has a summary and a country and no tags.
C16_Witness ==
    /\ probe.fn = "enrich_with_groq" /\ probe.groq.reply = "object"
    /\ ~GroqRaises(probe.groq)
    /\ probe.groq.industry_tags = Absent /\ probe.groq.event_tags = Absent
    /\ probe.groq.country.kind = "value"

\* the rules of a table one of whose keywords is a substring of the lower-cased text
Hits(rules, text) == {i \in DOMAIN rules : AnyKey(rules[i].keys, Lower(text))}

\* the label of the n-th rule that hits
NthHit(rules, text, n) ==
    rules[CHOOSE i \in Hits(rules, text) :
             Cardinality({m \in Hits(rules, text) : m < i}) = n - 1].label

\* C17: detect_sectors gives <<"Tech">> when no sector rule matches and detect_events
\* gives <<"News">> when no event rule matches; neither result is ever empty; the title
\* "Fintech startup X raises $10M Series A" gets the sector FinTech and the event Funding.
C17_NeverEmptyClassification ==
    /\ probe.fn = "detect_sectors" =>
          /\ probe.out # <<>>
          /\ Hits(SECTOR_RULES, probe.text) = {} => probe.out = <<"Tech">>
          /\ probe.text = Text_FintechSeriesA => "FinTech" \in Range(probe.out)
    /\ probe.fn = "detect_events" =>
          /\ probe.out # <<>>
          /\ Hits(EVENT_RULES, probe.text) = {} => probe.out = <<"News">>
          /\ probe.text = Text_FintechSeriesA => "Funding" \in Range(probe.out)

\* C17's case: detect_sectors was called on a text that no sector rule matches.
C17_Witness ==
    /\ probe.fn = "detect_sectors" /\ probe.text = Text_WeeklyNotes
    /\ Hits(SECTOR_RULES, probe.text) = {}

\* the result is the labels of the first `cap` rules that hit, in the order of the table
FirstHits(rules, text, out, cap) ==
    /\ Len(out) = Min(cap, Cardinality(Hits(rules, text)))
    /\ \A j \in DOMAIN out : out[j] = NthHit(rules, text, j)
    /\ \A j, k \in DOMAIN out : j # k => out[j] # out[k]

\* C18: detect_sectors gives at most 3 labels and detect_events at most 2, none twice;
\* when rules match, the result is the labels of the first 3 (2) matching rules, in the
\* order of SECTOR_RULES (EVENT_RULES).
C18_CapAndDeclarationOrder ==
    /\ probe.fn = "detect_sectors" =>
          /\ Len(probe.out) <= 3
          /\ Hits(SECTOR_RULES, probe.text) # {}
                => FirstHits(SECTOR_RULES, probe.text, probe.out, 3)
    /\ probe.fn = "detect_events" =>
          /\ Len(probe.out) <= 2
          /\ Hits(EVENT_RULES, probe.text) # {}
                => FirstHits(EVENT_RULES, probe.text, probe.out, 2)

\* C18's case: detect_events was called on a text that more than two event rules match.
C18_Witness ==
    /\ probe.fn = "detect_events" /\ Cardinality(Hits(EVENT_RULES, probe.text)) > 2
    /\ Len(probe.out) = 2

\* the hint is exactly two letters
TwoLetters(hint) == Len(hint) = 2 /\ \A i \in DOMAIN hint : IsAlpha(hint[i])

\* C19: detect_country gives the code of the first rule of COUNTRY_KEYWORDS that
\* matches; when none matches, the upper-cased hint if the hint is two letters, and
\* LATAM otherwise; the result is never empty.
C19_CountryDetection ==
    probe.fn = "detect_country" =>
       /\ probe.out # <<>>
       /\ Hits(COUNTRY_KEYWORDS, probe.text) # {}
            => probe.out = NthHit(COUNTRY_KEYWORDS, probe.text, 1)
       /\ (Hits(COUNTRY_KEYWORDS, probe.text) = {} /\ TwoLetters(probe.hint))
            => probe.out = Upper(probe.hint)
       /\ (Hits(COUNTRY_KEYWORDS, probe.text) = {} /\ ~TwoLetters(probe.hint))
            => probe.out = LATAM

\* C19's case: detect_country was called on a text that names two countries, with a
\* hint of two letters.
C19_Witness ==
    /\ probe.fn = "detect_country" /\ Cardinality(Hits(COUNTRY_KEYWORDS, probe.text)) > 1
    /\ TwoLetters(probe.hint)

Digits == {"0", "1", "2", "3", "4", "5", "6", "7", "8", "9"}

\* a character the regular expressions' \w matches
IsWordChar(c) == IsAlpha(c) \/ c \in Digits \/ c = "_"

\* k occurs in t as a whole word or phrase: between two word boundaries
OccursAsWord(k, t) ==
    \E i \in 1..(Len(t) - Len(k) + 1) :
       /\ SubSeq(t, i, i + Len(k) - 1) = k
       /\ i = 1 \/ ~IsWordChar(t[i - 1])
       /\ i + Len(k) - 1 = Len(t) \/ ~IsWordChar(t[i + Len(k)])

\* every rule whose label is in `labels` has a keyword that occurs in the text as a word
ByWholeWord(rules, text, labels) ==
    \A i \in DOMAIN rules :
       rules[i].label \in labels
          => \E j \in DOMAIN rules[i].keys : OccursAsWord(rules[i].keys[j], Lower(text))

\* C20: detect_sectors, detect_events and detect_country give a rule's label only when
\* one of the rule's keywords occurs in the text as a whole word or phrase.
C20_WordBoundaryMatching ==
    /\ probe.fn = "detect_sectors" => ByWholeWord(SECTOR_RULES, probe.text, Range(probe.out))
    /\ probe.fn = "detect_events" => ByWholeWord(EVENT_RULES, probe.text, Range(probe.out))
    /\ (probe.fn = "detect_country" /\ Hits(COUNTRY_KEYWORDS, probe.text) # {})
          => ByWholeWord(COUNTRY_KEYWORDS, probe.text, {probe.out})

\* C24: a photo run that publishes and saves, with no more ids than the cap to keep,
\* leaves in sent_state.json exactly the ids it loaded and the ids it selected.
C24_CommitMarksPublished ==
    [][ ( /\ last'.op = "photo" /\ last'.exit = "ok" /\ last'.saved
          /\ Cardinality(load_sent(sentFile) \cup Tops(last')) <= SentCap )
        => /\ sentFile'.st = "ok"
           /\ sentFile'.sent_ids = load_sent(sentFile) \cup Tops(last')
           /\ last'.published ]_vars

\* C24's case: a photo run that adds the id it selected to the one already recorded.
C24_Witness ==
    /\ last.op = "photo" /\ last.exit = "ok" /\ last.saved /\ Tops(last) # {}
    /\ sentFile.sent_ids \ Tops(last) # {}
    /\ Tops(last) \subseteq sentFile.sent_ids

\* an item of a dataset that is still to be sent: not recorded as sent, and in the window
Unsent(it) == it.id \notin load_sent(sentFile) /\ in_window(it, now - WINDOW_HOURS)

\* C25: a collect run keeps in latam_funding.json and latam_startups.json every item
\* that is not sent and is inside the window, and does not replace a dataset that
\* holds items by an empty list.
C25_NoItemLostBeforeSent ==
    [][ last'.op = "collect" =>
          /\ \A it \in Range(fundingFile.items) :
                Unsent(it) => it \in Range(fundingFile'.items)
          /\ \A it \in Range(startupsFile.items) :
                Unsent(it) => it \in Range(startupsFile'.items)
          /\ fundingFile.items # <<>> => fundingFile'.items # <<>>
          /\ startupsFile.items # <<>> => startupsFile'.items # <<>> ]_vars

\* C26: a run.main run whose collect step emitted an item posts it and records its id
\* under sent_ids of state.json.
C26_RunPipelineProgress ==
    (last.op = "run" /\ last.exit = "ok" /\ last.emitted # {})
       => (last.published /\ last.emitted \cap stateFile.sent_ids # {})

C28_NoDuplicatesInDigest ==
    \A i, j \in DOMAIN digestFile.items :
       i # j => digestFile.items[i].id # digestFile.items[j].id

\* a link without its trailing tracking parameters
WithoutTracking(body) == IF body = "u1?utm_source=rss" THEN "u1" ELSE body

\* two fetches of one article: they differ at most by whitespace around the link and the
\* title, and by tracking parameters at the end of the link
SameArticle(e1, e2) ==
    /\ WithoutTracking(e1.link.body) = WithoutTracking(e2.link.body)
    /\ e1.title.body = e2.title.body

\* C21: for one source, two fetches of the same article get the same id from make_id,
\* and so do two calls with the same link and title.
C21_IdentityStable ==
    (probe.fn = "make_id" /\ SameArticle(probe.first, probe.second))
       => probe.id1 = probe.id2

\* C22: after pick_items, the two lists and the sent set the caller passed are as they
\* were before the call.
C22_SelectionLeavesInputs ==
    probe.fn = "pick_items" =>
       /\ probe.out.funding_items = probe.funding_items
       /\ probe.out.startups_items = probe.startups_items
       /\ probe.out.sent = probe.sent

\* the positions of the items of a list that have an id that is not in sent
FreshAt(items, sent) == {i \in DOMAIN items : items[i].id # NoId /\ items[i].id \notin sent}

\* `top` is the first `limit` fresh items of `items`, in the order of `items`
LeadingFresh(top, items, sent, limit) ==
    /\ Len(top) = Min(limit, Cardinality(FreshAt(items, sent)))
    /\ \A j \in DOMAIN top :
          \E i \in FreshAt(items, sent) :
             /\ Cardinality({m \in FreshAt(items, sent) : m < i}) = j - 1
             /\ top[j].id = items[i].id /\ top[j].title = items[i].title

\* C23: pick_items returns at most TOP_FUNDING funding items and TOP_STARTUPS startup
\* items, each selection being the leading items of its list among those that have an
\* id that is not in sent.
C23_SelectionBudget ==
    probe.fn = "pick_items" =>
       /\ Len(probe.out.top_funding) <= TOP_FUNDING
       /\ Len(probe.out.top_startups) <= TOP_STARTUPS
       /\ LeadingFresh(probe.out.top_funding, probe.funding_items, probe.sent, TOP_FUNDING)
       /\ LeadingFresh(probe.out.top_startups, probe.startups_items, probe.sent, TOP_STARTUPS)

\* C23's case: more funding items are fresh than the budget, and one item has no id.
C23_Witness ==
    /\ probe.fn = "pick_items" /\ probe.funding_items = PickCatalog
    /\ probe.sent = {}
    /\ Len(probe.out.top_funding) = TOP_FUNDING

====
